---- MODULE Spec2Model ----
(***************************************************************************)
(* The weather forecast tool: one run of main, which validates the flags,  *)
(* resolves the city to a coordinate (FindCityLocation), fetches the daily *)
(* forecast (GetWeather) and renders it (processJsonData, createPattern).  *)
(* The model follows the most complete variant of the program, the one     *)
(* with the -sunrise and -sunset options.                                  *)
(*                                                                         *)
(* Temperatures are float64 in the program, and in the model: a number of  *)
(* the forecast body is a decimal d, held as the integer d * Scale, and     *)
(* json.Unmarshal turns it into the float64 nearest to it; from there on   *)
(* every operation rounds as the program's does.                           *)
(***************************************************************************)
EXTENDS Integers, Sequences, FiniteSets, TLC

\* ------------------------------------------------------------------ bounds
MaxCandidates == 3      \* candidates in a geocoding reply
MaxDays == 3            \* days in a forecast reply

\* denominator of the decimals of a forecast body
Scale == 5 * 5

\* TLC's integers are 32 bits wide: these stand for the ends of int64; the
\* program only compares them with 0 and 5.
MinInt64 == -(2^30)
MaxInt64 == 2^30

Range(s) == {s[k] : k \in 1..Len(s)}

RECURSIVE Repeat(_, _)
Repeat(s, count) == IF count <= 0 THEN <<>> ELSE <<s>> \o Repeat(s, count - 1)

\* ----------------------------------------------------------------- float64
\* IEEE 754 binary64 with round to nearest, ties to even, as Go computes on
\* float64.  A finite float64 is the record [neg, exp, hi, lo] of value
\* (-1)^neg * (hi * Limb + lo) * 2^exp, whose 53-bit mantissa hi * Limb + lo
\* lies in [2^52, 2^53); zero is Zero.  The mantissa is held in two limbs
\* because TLC's integers are 32 bits wide.  Exponents are not bounded: the
\* temperatures are far from the subnormal and the overflow range.  The
\* operations are functions, so that TLC computes an operand once.
Limb == 2^27

Float64s == [neg : BOOLEAN, exp : Int, hi : Nat, lo : Nat]

Zero == [neg |-> FALSE, exp |-> 0, hi |-> 0, lo |-> 0]

\* the number of bits of n, 0 <= n < 2^31, looked for from position k down
BitsFrom[n \in Nat, k \in Nat] ==
    IF k = 0 \/ n >= 2^(k - 1) THEN k ELSE BitsFrom[n, k - 1]

\* the number of bits of the integer h * Limb + l
WideLen[h \in Nat, l \in Nat] ==
    IF h > 0 THEN 27 + BitsFrom[h, 31] ELSE BitsFrom[l, 27]

\* <<h, l>> of (h * Limb + l) \div 2^s
ShiftRight[h \in Nat, l \in Nat, s \in Nat] ==
    IF s = 0 THEN <<h, l>>
    ELSE IF s < 27 THEN <<h \div 2^s, (h % 2^s) * 2^(27 - s) + l \div 2^s>>
    ELSE IF s < 58 THEN ShiftRight[h \div Limb, h % Limb, s - 27]
    ELSE <<0, 0>>

\* the shift by s loses a nonzero bit
ShiftLoses[h \in Nat, l \in Nat, s \in Nat] ==
    IF s = 0 THEN FALSE
    ELSE IF s < 27 THEN l % 2^s # 0
    ELSE IF s < 58 THEN l # 0 \/ h % 2^(s - 27) # 0
    ELSE l # 0 \/ h # 0

\* <<h, l>> of (h * Limb + l) * 2^s, a product below 2^57
ShiftLeft[h \in Nat, l \in Nat, s \in Nat] ==
    IF s = 0 THEN <<h, l>>
    ELSE IF s < 27 THEN <<h * 2^s + l \div 2^(27 - s), (l % 2^(27 - s)) * 2^s>>
    ELSE ShiftLeft[h * Limb + l, 0, s - 27]

\* the float64 nearest to (-1)^neg * (h * Limb + l) * 2^exp, for an integer
\* h * Limb + l below 2^57.  An operation whose exact result has more bits
\* passes its leading bits with the last one set (a sticky bit), at least two
\* bits below the 53 that stay.
F64Round[neg \in BOOLEAN, exp \in Int, h \in Nat, l \in Nat] ==
    IF h = 0 /\ l = 0 THEN Zero
    ELSE LET n == WideLen[h, l]
         IN IF n <= 53
            THEN LET m == ShiftLeft[h, l, 53 - n]
                 IN [neg |-> neg, exp |-> exp - (53 - n), hi |-> m[1], lo |-> m[2]]
            ELSE LET s == n - 53
                     q == ShiftRight[h, l, s]
                     rest == l % 2^s
                     half == 2^(s - 1)
                     up == rest > half \/ (rest = half /\ q[2] % 2 = 1)
                     m == IF ~up THEN q
                          ELSE IF q[2] + 1 < Limb THEN <<q[1], q[2] + 1>>
                          ELSE <<q[1] + 1, 0>>
                 IN IF m[1] = 2^26
                    THEN [neg |-> neg, exp |-> exp + s + 1, hi |-> 2^25, lo |-> 0]
                    ELSE [neg |-> neg, exp |-> exp + s, hi |-> m[1], lo |-> m[2]]

\* float64(n) of an integer constant n, |n| < 2^30
F64FromInt[n \in Int] ==
    LET a == IF n < 0 THEN -n ELSE n
    IN F64Round[n < 0, 0, a \div Limb, a % Limb]

F64Neg[x \in Float64s] == IF x = Zero THEN Zero ELSE [x EXCEPT !.neg = ~x.neg]

\* |x| < |y|
F64MagLess[x \in Float64s, y \in Float64s] ==
    IF y = Zero THEN FALSE
    ELSE IF x = Zero THEN TRUE
    ELSE \/ x.exp < y.exp
         \/ x.exp = y.exp /\ x.hi < y.hi
         \/ x.exp = y.exp /\ x.hi = y.hi /\ x.lo < y.lo

\* x < y
F64Less[x \in Float64s, y \in Float64s] ==
    IF x.neg # y.neg THEN x.neg
    ELSE IF x.neg THEN F64MagLess[y, x]
    ELSE F64MagLess[x, y]

\* x * k for an integer constant k in 1..15
F64MulInt[x \in Float64s, k \in 1..15] ==
    LET p == x.lo * k
    IN F64Round[x.neg, x.exp, x.hi * k + p \div Limb, p % Limb]

\* x + y: the mantissas are taken with three more bits, the smaller operand
\* is shifted to the exponent of the larger one and keeps a sticky bit
F64Add[x \in Float64s, y \in Float64s] ==
    IF x = Zero THEN y
    ELSE IF y = Zero THEN x
    ELSE LET big == IF F64MagLess[x, y] THEN y ELSE x
             small == IF F64MagLess[x, y] THEN x ELSE y
             d == big.exp - small.exp
             ah == big.hi * 8 + big.lo \div 2^24
             al == (big.lo % 2^24) * 8
             sh == small.hi * 8 + small.lo \div 2^24
             sl == (small.lo % 2^24) * 8
             b == ShiftRight[sh, sl, d]
             bh == b[1]
             bl == IF ShiftLoses[sh, sl, d] /\ b[2] % 2 = 0 THEN b[2] + 1 ELSE b[2]
         IN IF big.neg = small.neg
            THEN F64Round[big.neg, big.exp - 3,
                          ah + bh + (al + bl) \div Limb, (al + bl) % Limb]
            ELSE IF al >= bl
            THEN F64Round[big.neg, big.exp - 3, ah - bh, al - bl]
            ELSE F64Round[big.neg, big.exp - 3, ah - bh - 1, al - bl + Limb]

F64Sub[x \in Float64s, y \in Float64s] == F64Add[x, F64Neg[y]]

\* the long division of two mantissas: after the last step <<qh, ql>> is the
\* quotient of n * 2^56 by the divisor <<dh, dl>>, n the mantissa the steps
\* began with, with its last bit set when the division leaves a remainder;
\* <<rh, rl>> is twice the remainder so far
LongDivision[qh \in Nat, ql \in Nat, rh \in Nat, rl \in Nat, dh \in Nat, dl \in Nat, steps \in Nat] ==
    IF steps = 0
    THEN <<qh, IF (rh # 0 \/ rl # 0) /\ ql % 2 = 0 THEN ql + 1 ELSE ql>>
    ELSE LET bit == IF rh > dh \/ (rh = dh /\ rl >= dl) THEN 1 ELSE 0
             sh == IF bit = 0 THEN rh ELSE IF rl >= dl THEN rh - dh ELSE rh - dh - 1
             sl == IF bit = 0 THEN rl ELSE IF rl >= dl THEN rl - dl ELSE rl - dl + Limb
         IN LongDivision[2 * qh + (2 * ql + bit) \div Limb, (2 * ql + bit) % Limb,
                         2 * sh + (2 * sl) \div Limb, (2 * sl) % Limb,
                         dh, dl, steps - 1]

\* x / y for y # 0
F64Div[x \in Float64s, y \in Float64s \ {Zero}] ==
    IF x = Zero THEN Zero
    ELSE LET q == LongDivision[0, 0, x.hi, x.lo, y.hi, y.lo, 57]
         IN F64Round[x.neg # y.neg, x.exp - y.exp - 56, q[1], q[2]]

\* int(x) of Go for a finite x: truncation toward zero.  An integer part of
\* 2^30 or more is held as 2^30.
F64Int[x \in Float64s] ==
    LET k == -x.exp
        a == IF x = Zero \/ k > 52 THEN 0
             ELSE IF k < 23 THEN 2^30
             ELSE IF k >= 27 THEN x.hi \div 2^(k - 27)
             ELSE x.hi * 2^(27 - k) + x.lo \div 2^k
    IN IF x.neg THEN -a ELSE a

\* ------------------------------------------------------------ input pools
CityFlags == {"", "Leiden"}
CountryFlags == {"", "Netherlands", "Belgium"}
DayArgs == {"", "2024-10-31"}

ForecastParams ==
    [Precipitation : BOOLEAN, Sunrise : BOOLEAN, Sunset : BOOLEAN,
     UVIndex : BOOLEAN, Fahr : BOOLEAN]

\* the architectures the program may be built for, as far as they differ in
\* the conversion of a float64 that no int holds
GoArchs == {"amd64", "arm64", "riscv64"}

GeoCodingResults ==
    { [Name |-> "Leiden", Country |-> "Netherlands",
       Latitude |-> "52.15833", Longitude |-> "4.49306"],
      [Name |-> "Leiden", Country |-> "United States",
       Latitude |-> "40.23", Longitude |-> "-75.9"],
      [Name |-> "Leiderdorp", Country |-> "Netherlands",
       Latitude |-> "52.16", Longitude |-> "4.53" ] }

SeqsUpTo(S, n) == UNION {[1..k -> S] : k \in 0..n}

\* what the geocoding provider may answer: a transport failure, a body that
\* cannot be read, a body that does not decode, or a list of candidates
GeoReplies ==
    { [kind |-> k, results |-> <<>>] : k \in {"neterr", "readerr", "garbage"} }
    \cup { [kind |-> "ok", results |-> r] : r \in SeqsUpTo(GeoCodingResults, MaxCandidates) }

NoGeoReply == [kind |-> "none", results |-> <<>>]

\* whole Celsius degrees the forecast provider may report
TempValues == {-10, -5, 0, 10}

\* the rising series 10, 15, 20, ... of n days
Ramp(n) == [k \in 1..n |-> 10 + 5 * (k - 1)]

\* the rising series 1, 3, 6, 10, ... of n days; in Fahrenheit its ratios
\* are not float64 values
Triangular(n) == [k \in 1..n |-> (k * (k + 1)) \div 2]

\* a timestamp of day k as the provider writes it ("2024-10-0kT06:0k"), or one
\* in another layout
Stamp(k, hour, wellFormed) ==
    [layout |-> IF wellFormed THEN "2006-01-02T15:04" ELSE "other",
     day |-> k, clock |-> <<hour, k>>]

\* the weather of n days: the Celsius maximum of each day (celsius), and
\* how many entries the provider puts in each array of its answer
DailyBody(celsius, nTime, nSunrise, nSunset, nPrecip, nUV, wellFormed) ==
    [kind |-> "ok",
     celsius |-> celsius,
     World |-> [k \in 1..nTime |-> k],
     Sunrise |-> [k \in 1..nSunrise |-> Stamp(k, 6, wellFormed)],
     Sunset |-> [k \in 1..nSunset |-> Stamp(k, 18, wellFormed)],
     Precip |-> [k \in 1..nPrecip |-> 25 * k],
     UVIndex |-> [k \in 1..nUV |-> 10 + k]]

\* answers with every array aligned to the temperatures, over all series
AlignedBodies ==
    { DailyBody(c, Len(c), Len(c), Len(c), Len(c), Len(c), wf) :
        c \in SeqsUpTo(TempValues, MaxDays), wf \in BOOLEAN }

\* answers whose optional arrays have any length up to the number of days
RaggedBodies ==
    UNION { { DailyBody(Ramp(n), n, l[1], l[2], l[3], l[4], TRUE) :
                l \in [1..4 -> 0..n] } : n \in 0..MaxDays }

\* answers with every array aligned, over the series 1, 3, 6, ...
UnevenBodies ==
    { DailyBody(Triangular(n), n, n, n, n, n, TRUE) : n \in 1..MaxDays }

\* answers whose date array is one short
ShortTimeBodies ==
    { DailyBody(Ramp(n), n - 1, n, n, n, n, TRUE) : n \in 1..MaxDays }

FailedBody(k) ==
    [kind |-> k, celsius |-> <<>>, World |-> <<>>, Sunrise |-> <<>>,
     Sunset |-> <<>>, Precip |-> <<>>, UVIndex |-> <<>>]

\* what the forecast provider may answer
ForecastReplies ==
    { FailedBody(k) : k \in {"neterr", "readerr", "garbage"} }
    \cup AlignedBodies \cup UnevenBodies \cup RaggedBodies \cup ShortTimeBodies

NoResponse ==
    [MaxTemps |-> <<>>, World |-> <<>>, Sunrise |-> <<>>, Sunset |-> <<>>,
     Precip |-> <<>>, UVIndex |-> <<>>]

\* ------------------------------------------------------------ the program
VARIABLES
    pc,                \* where main stands
    goarch,            \* the architecture the binary was built for, once the
                       \* run has made a conversion that depends on it
    city, country,     \* the -city and -country flags
    day,               \* the -day argument on the command line, "" when none
    params,            \* the -p -sunrise -sunset -uv -f flags
    geo,               \* the geocoding reply FindCityLocation is working on
    lat, lon, err,     \* what FindCityLocation / GetWeather returned to main
    url,               \* the forecast request, as the pieces written to it
    geoRequests,       \* geocoding requests issued
    forecastRequests,  \* forecast requests issued
    celsius,           \* the weather at the provider, in Celsius
    weather,           \* the forecast body main holds
    minTemp, maxTemp,  \* processJsonData's bounds of the series
    i,                 \* processJsonData's day index
    lines,             \* forecast lines printed
    usage,             \* the usage text was printed
    printed,           \* the error message printed, if any
    panicked,          \* the run ended in a runtime panic
    exitCode           \* the exit status, once pc = "exit"

vars == <<pc, goarch, city, country, day, params, geo, lat, lon, err, url,
          geoRequests, forecastRequests, celsius, weather, minTemp, maxTemp,
          i, lines, usage, printed, panicked, exitCode>>

\* --- GetWeather's request
\* the request suffix with the sunset field written under the sunrise flag
formatExtraForecastParamsSunrise(f) ==
    <<"&daily=temperature_2m_max,temperature_2m_min">>
    \o (IF f.Precipitation THEN <<",precipitation_sum">> ELSE <<>>)
    \o (IF f.Sunrise THEN <<",sunrise">> ELSE <<>>)
    \o (IF f.Sunrise THEN <<",sunset">> ELSE <<>>)
    \o (IF f.UVIndex THEN <<",uv_index_max">> ELSE <<>>)
    \o (IF f.Fahr THEN <<"&temperature_unit=fahrenheit">> ELSE <<>>)

formatExtraForecastParams(f) ==
    <<"&daily=temperature_2m_max,temperature_2m_min">>
    \o (IF f.Precipitation THEN <<",precipitation_sum">> ELSE <<>>)
    \o (IF f.Sunrise THEN <<",sunrise">> ELSE <<>>)
    \o (IF f.Sunset THEN <<",sunset">> ELSE <<>>)
    \o (IF f.UVIndex THEN <<",uv_index_max">> ELSE <<>>)
    \o (IF f.Fahr THEN <<"&temperature_unit=fahrenheit">> ELSE <<>>)

formattedUrl(loc, forecast_params) ==
    <<"https://api.open-meteo.com/v1/forecast?",
      "latitude=", loc.Latitude, "&longitude=", loc.Longitude, "&timezone=auto">>
    \o formatExtraForecastParams(forecast_params)

\* --- temperatures
\* the provider's conversion of a decimal, F = C * 9 / 5 + 32
DecimalFahrenheit(d) == (d * 9) \div 5 + 32 * Scale

\* the provider answers in the unit the request asks for
ProviderMaxTemps(request, series) ==
    [k \in 1..Len(series) |->
        IF "&temperature_unit=fahrenheit" \in Range(request)
        THEN DecimalFahrenheit(series[k] * Scale)
        ELSE series[k] * Scale]

\* the float64 json.Unmarshal makes of the decimal d: the one nearest to it
Float64(d) == F64Div[F64FromInt[d], F64FromInt[Scale]]

\* temp = (temp * 9 / 5) + 32
ToFahrenheit(temp) ==
    F64Add[F64Div[F64MulInt[temp, 9], F64FromInt[5]], F64FromInt[32]]

\* ((temp - minTemp) / (maxTemp - minTemp)) * 5, for maxTemp # minTemp
RatioTimes5(temp, lo, hi) ==
    F64MulInt[F64Div[F64Sub[temp, lo], F64Sub[hi, lo]], 5]

\* int(x) of Go for a float64 no int holds: the result depends on the build
IntOfNaN(arch) ==
    CASE arch = "amd64" -> MinInt64
      [] arch = "arm64" -> 0
      [] OTHER -> MaxInt64

IntOfPosInf(arch) == IF arch = "amd64" THEN MinInt64 ELSE MaxInt64

\* the first loop of processJsonData: the fold over MaxTemps, from the zero
\* values of minTemp and maxTemp
RECURSIVE MinMaxFold(_, _, _, _)
MinMaxFold(temps, fah, lo, hi) ==
    IF temps = <<>> THEN <<lo, hi>>
    ELSE LET temp == IF fah THEN ToFahrenheit(Head(temps)) ELSE Head(temps)
             lo2 == IF lo = Zero \/ F64Less[temp, lo] THEN temp ELSE lo
             hi2 == IF F64Less[hi, temp] THEN temp ELSE hi
         IN MinMaxFold(Tail(temps), fah, lo2, hi2)

\* temp of the second loop
DayTemp(maxTemps, k, fah) ==
    IF fah THEN ToFahrenheit(maxTemps[k + 1]) ELSE maxTemps[k + 1]

\* int(((temp - minTemp) / (maxTemp - minTemp)) * 5).  maxTemp - minTemp is
\* zero exactly when the two are equal, and the ratio is then NaN, -Inf or
\* +Inf as temp - minTemp is zero, negative or positive.
IntOfRatioTimes5(temp, lo, hi, arch) ==
    IF hi = lo
    THEN IF temp = lo THEN IntOfNaN(arch)
         ELSE IF F64Less[temp, lo] THEN MinInt64
         ELSE IntOfPosInf(arch)
    ELSE F64Int[RatioTimes5(temp, lo, hi)]

\* the star computation without its floor of 1
StarsNoFloor(temp, lo, hi, arch) == IntOfRatioTimes5(temp, lo, hi, arch)

\* stars := int(((temp - minTemp) / (maxTemp - minTemp)) * 5); if stars <= 0 { stars = 1 }
Stars(temp, lo, hi, arch) ==
    LET raw == IntOfRatioTimes5(temp, lo, hi, arch)
    IN IF raw <= 0 THEN 1 ELSE raw

\* the conversion of day k's ratio depends on the build
ArchDependent(temp, lo, hi) == hi = lo /\ ~F64Less[temp, lo]

\* (the n < 0 branch also prints n; Stars never passes it a negative n)
createPattern(n) ==
    LET stars == IF n < 0 THEN 0 ELSE IF n > 5 THEN 5 ELSE n
    IN Repeat("*", stars) \o Repeat(" ", 5 - stars)

\* time.Parse("2006-01-02T15:04", s) succeeds
Parses(stamp) == stamp.layout = "2006-01-02T15:04"

\* the segments with precipitation appended before the sun times
SegmentsPrecipFirst(h, k, showPrecip, showUV, showSunrise, showSunset) ==
    (IF showPrecip /\ Len(h.Precip) > 0
     THEN << <<" | Precip: ", h.Precip[k + 1]>> >> ELSE <<>>)
    \o (IF showSunrise /\ Len(h.Sunrise) > 0 /\ Parses(h.Sunrise[k + 1])
        THEN << <<" | Sunrise: ", h.Sunrise[k + 1].clock>> >> ELSE <<>>)
    \o (IF showSunset /\ Len(h.Sunset) > 0 /\ Parses(h.Sunset[k + 1])
        THEN << <<" | Sunset: ", h.Sunset[k + 1].clock>> >> ELSE <<>>)
    \o (IF showUV /\ Len(h.UVIndex) > 0
        THEN << <<" | UV Index: ", h.UVIndex[k + 1]>> >> ELSE <<>>)

\* the optional segments of day k's line, in the order they are appended
Segments(h, k, showPrecip, showUV, showSunrise, showSunset) ==
    (IF showSunrise /\ Len(h.Sunrise) > 0 /\ Parses(h.Sunrise[k + 1])
     THEN << <<" | Sunrise: ", h.Sunrise[k + 1].clock>> >> ELSE <<>>)
    \o (IF showSunset /\ Len(h.Sunset) > 0 /\ Parses(h.Sunset[k + 1])
        THEN << <<" | Sunset: ", h.Sunset[k + 1].clock>> >> ELSE <<>>)
    \o (IF showPrecip /\ Len(h.Precip) > 0
        THEN << <<" | Precip: ", h.Precip[k + 1]>> >> ELSE <<>>)
    \o (IF showUV /\ Len(h.UVIndex) > 0
        THEN << <<" | UV Index: ", h.UVIndex[k + 1]>> >> ELSE <<>>)

\* day k's iteration indexes a slice out of range: a runtime panic
IndexPanics(h, k, showPrecip, showUV, showSunrise, showSunset) ==
    \/ k >= Len(h.World)
    \/ showSunrise /\ Len(h.Sunrise) > 0 /\ k >= Len(h.Sunrise)
    \/ showSunset /\ Len(h.Sunset) > 0 /\ k >= Len(h.Sunset)
    \/ showPrecip /\ Len(h.Precip) > 0 /\ k >= Len(h.Precip)
    \/ showUV /\ Len(h.UVIndex) > 0 /\ k >= Len(h.UVIndex)

\* the line processJsonData prints for day k
Line(h, k, fah, showPrecip, showUV, showSunrise, showSunset, lo, hi, arch) ==
    LET temp == DayTemp(h.MaxTemps, k, fah)
    IN [pattern |-> createPattern(Stars(temp, lo, hi, arch)),
        temp |-> F64Int[temp],
        unit |-> IF fah THEN "F" ELSE "C",
        date |-> h.World[k + 1],
        segments |-> Segments(h, k, showPrecip, showUV, showSunrise, showSunset)]

\* --- FindCityLocation's scan
\* a scan that keeps going after a match: the last matching index
RECURSIVE LastMatch(_, _, _)
LastMatch(results, wanted, k) ==
    IF k > Len(results) THEN 0
    ELSE LET later == LastMatch(results, wanted, k + 1)
         IN IF later > 0 THEN later
            ELSE IF results[k].Country = wanted THEN k ELSE 0

RECURSIVE FirstMatch(_, _, _)
FirstMatch(results, wanted, k) ==
    IF k > Len(results) THEN 0
    ELSE IF results[k].Country = wanted THEN k
    ELSE FirstMatch(results, wanted, k + 1)

NoMatchError(c) ==
    <<"Could not find a proper location match for ", c.Name,
      " of country ", c.Country>>

\* a resolver that falls back to the first candidate when no country matches
FindCityLocationFallback(c, reply) ==
    LET k == FirstMatch(reply.results, c.Country, 1)
    IN IF reply.kind \in {"neterr", "readerr"} THEN <<"", "", <<"transport error">> >>
       ELSE IF k > 0
       THEN <<reply.results[k].Latitude, reply.results[k].Longitude, <<>> >>
       ELSE IF Len(reply.results) > 0
       THEN <<reply.results[1].Latitude, reply.results[1].Longitude, <<>> >>
       ELSE <<"", "", NoMatchError(c)>>

\* what FindCityLocation returns: <<latitude, longitude, err>>
FindCityLocation(c, reply) ==
    LET k == FirstMatch(reply.results, c.Country, 1)
    IN IF reply.kind \in {"neterr", "readerr"} THEN <<"", "", <<"transport error">> >>
       ELSE IF k > 0
       THEN <<reply.results[k].Latitude, reply.results[k].Longitude, <<>> >>
       ELSE <<"", "", NoMatchError(c)>>

\* --- main
\* the check with && in place of ||
MissingBothFlags(cityFlag, countryFlag) == cityFlag = "" /\ countryFlag = ""

\* if *city == "" || *country == ""
MissingFlags(cityFlag, countryFlag) == cityFlag = "" \/ countryFlag = ""

\* json.Unmarshal of the forecast body into Response
Decoded(request, reply) ==
    [decodes |-> reply.kind = "ok",
     History |-> [MaxTemps |-> [k \in 1..Len(reply.celsius) |->
                                  Float64(ProviderMaxTemps(request, reply.celsius)[k])],
                  World |-> reply.World,
                  Sunrise |-> reply.Sunrise,
                  Sunset |-> reply.Sunset,
                  Precip |-> reply.Precip,
                  UVIndex |-> reply.UVIndex]]

Init ==
    /\ pc = "main"
    /\ goarch = ""
    /\ city \in CityFlags
    /\ country \in CountryFlags
    /\ day \in DayArgs
    /\ params \in ForecastParams
    /\ geo = NoGeoReply
    /\ lat = ""
    /\ lon = ""
    /\ err = <<>>
    /\ url = <<>>
    /\ geoRequests = 0
    /\ forecastRequests = 0
    /\ celsius = <<>>
    /\ weather = [decodes |-> FALSE, History |-> NoResponse]
    /\ minTemp = Zero
    /\ maxTemp = Zero
    /\ i = 0
    /\ lines = <<>>
    /\ usage = FALSE
    /\ printed = <<>>
    /\ panicked = FALSE
    /\ exitCode = -1

\* flag.Parse meets an argument for which main defines no flag: it reports
\* it, calls flag.Usage and exits with status 2.  main defines -city,
\* -country, -p, -uv, -sunrise, -sunset and -f.
UndefinedFlag(dayArg) == dayArg # ""

\* main parses the command line and checks the mandatory flags
CheckFlags ==
    /\ pc = "main"
    /\ IF UndefinedFlag(day)
       THEN /\ printed' = <<"flag provided but not defined: -day">>
            /\ usage' = TRUE
            /\ exitCode' = 2
            /\ pc' = "exit"
       ELSE IF MissingFlags(city, country)
       THEN /\ usage' = TRUE
            /\ exitCode' = 1
            /\ pc' = "exit"
            /\ UNCHANGED printed
       ELSE /\ pc' = "FindCityLocation"
            /\ UNCHANGED <<usage, exitCode, printed>>
    /\ UNCHANGED <<goarch, city, country, day, params, geo, lat, lon, err, url,
                   geoRequests, forecastRequests, celsius, weather, minTemp,
                   maxTemp, i, lines, panicked>>

\* main going on to GetWeather whatever FindCityLocation returned
ResolveIgnoringError ==
    /\ pc = "FindCityLocation"
    /\ \E reply \in GeoReplies :
        LET r == FindCityLocation([Name |-> city, Country |-> country], reply)
        IN /\ geo' = reply
           /\ geoRequests' = geoRequests + 1
           /\ lat' = r[1]
           /\ lon' = r[2]
           /\ err' = r[3]
           /\ pc' = "GetWeather"
    /\ UNCHANGED <<goarch, city, country, day, params, url, forecastRequests,
                   celsius, weather, minTemp, maxTemp, i, lines, usage,
                   panicked, printed, exitCode>>

\* main calls FindCityLocation and checks its error
Resolve ==
    /\ pc = "FindCityLocation"
    /\ \E reply \in GeoReplies :
        /\ geo' = reply
        /\ geoRequests' = geoRequests + 1
        /\ IF reply.kind = "garbage"
           THEN \* log.Fatalf
                /\ printed' = <<"Error unmarshalling JSON">>
                /\ exitCode' = 1
                /\ pc' = "exit"
                /\ UNCHANGED <<lat, lon, err>>
           ELSE LET r == FindCityLocation([Name |-> city, Country |-> country], reply)
                IN /\ lat' = r[1]
                   /\ lon' = r[2]
                   /\ err' = r[3]
                   /\ IF r[3] # <<>>
                      THEN /\ printed' = r[3]
                           /\ exitCode' = 1
                           /\ pc' = "exit"
                      ELSE /\ pc' = "GetWeather"
                           /\ UNCHANGED <<printed, exitCode>>
    /\ UNCHANGED <<goarch, city, country, day, params, url, forecastRequests,
                   celsius, weather, minTemp, maxTemp, i, lines, usage, panicked>>

\* main calls GetWeather, which builds the request and issues it
Fetch ==
    /\ pc = "GetWeather"
    /\ url' = formattedUrl([Latitude |-> lat, Longitude |-> lon], params)
    /\ forecastRequests' = forecastRequests + 1
    /\ geo' = NoGeoReply
    /\ pc' = "http.Get"
    /\ UNCHANGED <<goarch, city, country, day, params, lat, lon, err, geoRequests,
                   celsius, weather, minTemp, maxTemp, i, lines, usage,
                   printed, panicked, exitCode>>

\* the provider answers; GetWeather returns and main checks its error
Receive ==
    /\ pc = "http.Get"
    /\ \E reply \in ForecastReplies :
        IF reply.kind \in {"neterr", "readerr"}
        THEN /\ err' = <<"transport error">>
             /\ printed' = <<"transport error">>
             /\ exitCode' = 1
             /\ pc' = "exit"
             /\ UNCHANGED <<celsius, weather>>
        ELSE /\ celsius' = reply.celsius
             /\ weather' = Decoded(url, reply)
             /\ pc' = "processJsonData"
             /\ UNCHANGED <<err, printed, exitCode>>
    /\ UNCHANGED <<goarch, city, country, day, params, geo, lat, lon, url,
                   geoRequests, forecastRequests, minTemp, maxTemp, i, lines,
                   usage, panicked>>

\* processJsonData: the decoding and the first loop
Normalize ==
    /\ pc = "processJsonData"
    /\ IF ~weather.decodes
       THEN \* fmt.Println("Error:", err); return, and main returns
            /\ printed' = <<"Error:">>
            /\ exitCode' = 0
            /\ pc' = "exit"
            /\ UNCHANGED <<minTemp, maxTemp>>
       ELSE LET b == MinMaxFold(weather.History.MaxTemps, params.Fahr, Zero, Zero)
            IN /\ minTemp' = b[1]
               /\ maxTemp' = b[2]
               /\ pc' = "render"
               /\ UNCHANGED <<printed, exitCode>>
    /\ UNCHANGED <<goarch, city, country, day, params, geo, lat, lon, err, url,
                   geoRequests, forecastRequests, celsius, weather, i, lines,
                   usage, panicked>>

\* processJsonData: one iteration of the second loop
RenderDay ==
    /\ pc = "render"
    /\ i < Len(weather.History.MaxTemps)
    /\ IF IndexPanics(weather.History, i, params.Precipitation, params.UVIndex,
                      params.Sunrise, params.Sunset)
       THEN /\ panicked' = TRUE
            /\ exitCode' = 2
            /\ pc' = "exit"
            /\ UNCHANGED <<i, lines, goarch>>
       ELSE /\ \E arch \in GoArchs :
                /\ IF ArchDependent(DayTemp(weather.History.MaxTemps, i, params.Fahr),
                                    minTemp, maxTemp)
                   THEN goarch \in {"", arch}
                   ELSE arch = "amd64"
                /\ goarch' = IF ArchDependent(DayTemp(weather.History.MaxTemps, i, params.Fahr),
                                              minTemp, maxTemp)
                             THEN arch ELSE goarch
                /\ lines' = Append(lines,
                       Line(weather.History, i, params.Fahr, params.Precipitation,
                            params.UVIndex, params.Sunrise, params.Sunset,
                            minTemp, maxTemp, arch))
            /\ i' = i + 1
            /\ UNCHANGED <<panicked, exitCode, pc>>
    /\ UNCHANGED <<city, country, day, params, geo, lat, lon, err, url,
                   geoRequests, forecastRequests, celsius, weather, minTemp,
                   maxTemp, usage, printed>>

\* processJsonData: the second loop is over; main returns
Return ==
    /\ pc = "render"
    /\ i >= Len(weather.History.MaxTemps)
    /\ exitCode' = 0
    /\ pc' = "exit"
    /\ UNCHANGED <<goarch, city, country, day, params, geo, lat, lon, err, url,
                   geoRequests, forecastRequests, celsius, weather, minTemp,
                   maxTemp, i, lines, usage, printed, panicked>>

Next == CheckFlags \/ Resolve \/ Fetch \/ Receive \/ Normalize \/ RenderDay \/ Return

Spec == Init /\ [][Next]_vars

\* ------------------------------------------------------------------ claims
\* geo holds the geocoding reply from the step in which FindCityLocation
\* returns until main goes on to GetWeather.
Matches(k) == geo.results[k].Country = country

\* C1: when candidate k is the first one whose country equals the -country
\* flag, FindCityLocation returns candidate k's latitude and longitude and no
\* error, whatever the later candidates and whatever the names.
C1_FirstMatchWins ==
    geo.kind = "ok" =>
        \A k \in 1..Len(geo.results) :
            (Matches(k) /\ \A j \in 1..(k - 1) : ~Matches(j))
            => /\ lat = geo.results[k].Latitude
               /\ lon = geo.results[k].Longitude
               /\ err = <<>>
               /\ pc = "GetWeather"

\* a reply whose first match is the second candidate, followed by another
\* match with other coordinates
C1_Witness ==
    /\ geo.kind = "ok"
    /\ Len(geo.results) = 3
    /\ ~Matches(1) /\ Matches(2) /\ Matches(3)
    /\ geo.results[3].Latitude # geo.results[2].Latitude
    /\ geo.results[2].Name # city
    /\ lat = geo.results[2].Latitude
    /\ pc = "GetWeather"

\* C2: when no candidate's country equals the -country flag (the empty list
\* included), FindCityLocation returns the no-match error naming the -city
\* and -country flags, and no coordinate; main does not go on.
C2_NoMatchError ==
    (geo.kind = "ok" /\ \A k \in 1..Len(geo.results) : ~Matches(k))
    => /\ err = <<"Could not find a proper location match for ", city,
                  " of country ", country>>
       /\ lat = "" /\ lon = ""
       /\ printed = err
       /\ pc = "exit" /\ exitCode = 1
       /\ forecastRequests = 0

\* a reply with candidates, none of the country asked for
C2_Witness ==
    /\ geo.kind = "ok"
    /\ Len(geo.results) >= 2
    /\ \A k \in 1..Len(geo.results) : ~Matches(k)
    /\ err # <<>>
    /\ pc = "exit"

\* --- the rendered lines
FilledMarks(line) ==
    Cardinality({j \in 1..Len(line.pattern) : line.pattern[j] = "*"})

\* C3: every line printed, for any series and either unit, shows between 1
\* and 5 filled marks.
C3_IntensityInRange ==
    \A k \in 1..Len(lines) : FilledMarks(lines[k]) \in 1..5

\* a Fahrenheit forecast with a day below zero, a coldest day at 1 mark and
\* another day at more
C3_Witness ==
    /\ params.Fahr
    /\ Len(lines) = 3
    /\ \E k \in 1..3 : celsius[k] < 0 /\ FilledMarks(lines[k]) = 1
    /\ \E k \in 1..3 : FilledMarks(lines[k]) > 1

\* the days of the series as the second loop sees them
Converted(k) == DayTemp(weather.History.MaxTemps, k - 1, params.Fahr)

Days == 1..Len(weather.History.MaxTemps)

\* no day's iteration indexes an array out of range
NoShortArray ==
    \A k \in Days : ~IndexPanics(weather.History, k - 1, params.Precipitation,
                                 params.UVIndex, params.Sunrise, params.Sunset)

\* C4: when every day has the same maximum temperature after conversion (a
\* series of one day included), every line printed shows 5 filled marks, and
\* the zero range does not crash the run: with no array short of the series,
\* the run ends without a panic and with a line for every day.
C4_FlatSeriesAllFive ==
    (\A a, b \in Days : Converted(a) = Converted(b))
    => /\ \A k \in 1..Len(lines) : FilledMarks(lines[k]) = 5
       /\ (pc = "exit" /\ forecastRequests = 1 /\ err = <<>> /\ weather.decodes
              /\ NoShortArray)
          => (~panicked /\ Len(lines) = Len(weather.History.MaxTemps))

\* the temperature of day k as the program takes it, without rounding: the
\* decimal of the body, converted when -f is given
Unrounded(k) ==
    LET d == ProviderMaxTemps(url, celsius)[k]
    IN IF params.Fahr THEN DecimalFahrenheit(d) ELSE d

\* the smallest and the largest of them, for a non-empty series
TrueMin == CHOOSE t \in {Unrounded(k) : k \in Days} : \A k \in Days : t <= Unrounded(k)
TrueMax == CHOOSE t \in {Unrounded(k) : k \in Days} : \A k \in Days : t >= Unrounded(k)

Floor5(k) == ((Unrounded(k) - TrueMin) * 5) \div (TrueMax - TrueMin)

Clamp15(n) == IF n < 1 THEN 1 ELSE IF n > 5 THEN 5 ELSE n

\* C5: when the series is not flat, the line of day k shows
\* floor((temp - min) / (max - min) * 5) filled marks, clamped to 1..5, with
\* min and max the smallest and largest converted temperature of the series.
C5_IntensityFormula ==
    (Days # {} /\ \E a, b \in Days : Converted(a) # Converted(b))
    => \A k \in 1..Len(lines) : FilledMarks(lines[k]) = Clamp15(Floor5(k))

\* the integer part of num / den, den > 0
Trunc(num, den) == IF num >= 0 THEN num \div den ELSE -((-num) \div den)

\* C6: the temperature a line shows is the source Celsius value when -f is
\* not given, and that value converted to Fahrenheit once when -f is given.
C6_ConvertedOnce ==
    \A k \in 1..Len(lines) :
        lines[k].temp = IF params.Fahr
                        THEN Trunc(DecimalFahrenheit(celsius[k] * Scale), Scale)
                        ELSE celsius[k]

\* an enabled optional field whose array has no entry for the day with
\* index k (counted from 0)
Short(enabled, array, k) == enabled /\ Len(array) < k + 1

Labels(line) == {line.segments[j][1] : j \in 1..Len(line.segments)}

\* C7: whatever the lengths of the optional arrays, the run prints a line for
\* every day that has a date, without a runtime panic, and the line of a day
\* leaves out every enabled field whose array has no entry for that day.
C7_ShortArrayOmitted ==
    LET h == weather.History
    IN /\ Len(h.World) >= Len(h.MaxTemps) => ~panicked
       /\ (pc = "exit" /\ exitCode = 0 /\ weather.decodes) => Len(lines) = Len(h.MaxTemps)
       /\ \A k \in 1..Len(lines) :
            /\ Short(params.Sunrise, h.Sunrise, k - 1) => " | Sunrise: " \notin Labels(lines[k])
            /\ Short(params.Sunset, h.Sunset, k - 1) => " | Sunset: " \notin Labels(lines[k])
            /\ Short(params.Precipitation, h.Precip, k - 1) => " | Precip: " \notin Labels(lines[k])
            /\ Short(params.UVIndex, h.UVIndex, k - 1) => " | UV Index: " \notin Labels(lines[k])

\* the place of a segment in the fixed order
Rank(label) ==
    CASE label = " | Sunrise: " -> 1
      [] label = " | Sunset: " -> 2
      [] label = " | Precip: " -> 3
      [] label = " | UV Index: " -> 4
      [] OTHER -> 0

\* C8: a line holds the segment of an optional field only if its flag is set,
\* and the segments it holds stand in the order sunrise, sunset,
\* precipitation, UV index.
C8_SegmentsEnabledInOrder ==
    \A k \in 1..Len(lines) :
        LET seg == lines[k].segments
        IN /\ \A j \in 1..Len(seg) : Rank(seg[j][1]) \in 1..4
           /\ \A a, b \in 1..Len(seg) : a < b => Rank(seg[a][1]) < Rank(seg[b][1])
           /\ " | Sunrise: " \in Labels(lines[k]) => params.Sunrise
           /\ " | Sunset: " \in Labels(lines[k]) => params.Sunset
           /\ " | Precip: " \in Labels(lines[k]) => params.Precipitation
           /\ " | UV Index: " \in Labels(lines[k]) => params.UVIndex

\* a line with the sunset and precipitation segments, while the sunrise and
\* UV arrays came back although their flags are off
C8_Witness ==
    /\ Len(lines) >= 2
    /\ Labels(lines[2]) = {" | Sunset: ", " | Precip: "}
    /\ ~params.Sunrise /\ Len(weather.History.Sunrise) >= 2
    /\ ~params.UVIndex /\ Len(weather.History.UVIndex) >= 2

\* the places of a piece in the request
Places(piece) == {j \in 1..Len(url) : url[j] = piece}

\* a field of the daily list: after the mandatory fields, before any further
\* parameter
InDailyList(piece) ==
    \E j \in Places(piece) :
        /\ \E d \in Places("&daily=temperature_2m_max,temperature_2m_min") : d < j
        /\ \A u \in Places("&temperature_unit=fahrenheit") : j < u

\* C9: the forecast request carries the latitude, the longitude, the
\* timezone and the two mandatory daily fields; each optional field is in the
\* daily list exactly when its flag is set; the unit override is there
\* exactly when -f is set.
C9_RequestFields ==
    forecastRequests > 0 =>
        /\ \E j \in Places("latitude=") : url[j + 1] = lat
        /\ \E j \in Places("&longitude=") : url[j + 1] = lon
        /\ Places("&timezone=auto") # {}
        /\ Cardinality(Places("&daily=temperature_2m_max,temperature_2m_min")) = 1
        /\ InDailyList(",precipitation_sum") <=> params.Precipitation
        /\ InDailyList(",sunrise") <=> params.Sunrise
        /\ InDailyList(",sunset") <=> params.Sunset
        /\ InDailyList(",uv_index_max") <=> params.UVIndex
        /\ Places("&temperature_unit=fahrenheit") # {} <=> params.Fahr

\* a request for sunset and UV index in Fahrenheit, without sunrise
C9_Witness ==
    /\ forecastRequests = 1
    /\ params.Sunset /\ params.UVIndex /\ params.Fahr
    /\ ~params.Sunrise /\ ~params.Precipitation
    /\ Len(url) = 10

\* C10: a run whose -city or -country flag is empty issues no request and
\* prints no forecast; it ends with the usage text and a non-zero exit status
\* (1 from main's check, 2 when flag.Parse already rejected the command line).
C10_MissingFlagNoRequest ==
    (city = "" \/ country = "") =>
        /\ geoRequests = 0
        /\ forecastRequests = 0
        /\ lines = <<>>
        /\ pc \in {"main", "exit"}
        /\ pc = "exit" => (usage /\ exitCode \in {1, 2})

\* the run with -city given and -country missing has ended
C10_Witness ==
    /\ city # "" /\ country = "" /\ day = ""
    /\ pc = "exit"
    /\ usage

\* C11: the run issues at most one geocoding request and then at most one
\* forecast request; the forecast request is issued only when
\* FindCityLocation has returned the coordinate of a matching candidate
\* without error; a line is printed only when GetWeather has returned a body
\* without error; once FindCityLocation or GetWeather has returned an error
\* the run is over with a non-zero exit status and no line, and a run that is
\* over issues no request and prints nothing more.
C11_StagesInOrder ==
    /\ [](/\ geoRequests \in 0..1
          /\ forecastRequests \in 0..1
          /\ forecastRequests = 1 => geoRequests = 1
          /\ lines # <<>> => forecastRequests = 1
          /\ err # <<>> => (pc = "exit" /\ exitCode = 1 /\ lines = <<>>))
    /\ [][/\ geoRequests' # geoRequests =>
                (forecastRequests = 0 /\ lines = <<>>)
          /\ forecastRequests' # forecastRequests =>
                /\ geo.kind = "ok" /\ err = <<>> /\ lines = <<>>
                /\ \E k \in 1..Len(geo.results) :
                       /\ Matches(k)
                       /\ lat = geo.results[k].Latitude
                       /\ lon = geo.results[k].Longitude
          /\ lines' # lines =>
                (forecastRequests = 1 /\ err = <<>> /\ weather.decodes)
          /\ pc = "exit" =>
                UNCHANGED <<geoRequests, forecastRequests, lines, pc, exitCode>>
         ]_vars

\* GetWeather failed after a successful resolve: one request of each kind,
\* the error printed, no line, exit status 1
C11_Witness ==
    /\ geoRequests = 1 /\ forecastRequests = 1
    /\ lat # ""
    /\ err = <<"transport error">> /\ printed = err
    /\ lines = <<>>
    /\ pc = "exit" /\ exitCode = 1

\* GetWeather returned a body that json.Unmarshal rejects
UndecodableForecast ==
    /\ forecastRequests = 1 /\ err = <<>>
    /\ pc \in {"processJsonData", "exit"}
    /\ ~weather.decodes

\* C12: a geocoding or forecast body that does not decode ends the run with
\* a non-zero exit status and without a forecast line.
C12_DecodeFailureFatal ==
    /\ geo.kind = "garbage" => (pc = "exit" /\ exitCode # 0 /\ lines = <<>>)
    /\ (UndecodableForecast /\ pc = "exit") => (exitCode # 0 /\ lines = <<>>)

\* C13: a run with -city and -country goes on to resolve whether or not -day
\* is on the command line: it never ends at the flag check, and the forecast
\* request and the lines are those of the same run without -day.
C13_DayIsInformational ==
    (city # "" /\ country # "") =>
        /\ ~usage
        /\ pc = "exit" => geoRequests = 1
        /\ forecastRequests = 1 =>
              url = formattedUrl([Latitude |-> lat, Longitude |-> lon], params)

\* C14: once the first loop is over, minTemp is the smallest and maxTemp the
\* largest converted temperature of a non-empty series.
C14_TrueMinMax ==
    (pc = "render" /\ Days # {})
    => /\ \E k \in Days : minTemp = Converted(k)
       /\ \A k \in Days : ~F64Less[Converted(k), minTemp]
       /\ \E k \in Days : maxTemp = Converted(k)
       /\ \A k \in Days : ~F64Less[maxTemp, Converted(k)]

\* the forecast has a date for every day
Dated == Len(weather.History.World) = Len(weather.History.MaxTemps)

\* C15: a run that gets a forecast of n dated days ends with n lines, the
\* k-th showing the date and the temperature of the k-th day, each with an
\* indicator of filled marks followed by blanks, 5 wide.
C15_OneLinePerDay ==
    (pc = "exit" /\ forecastRequests = 1 /\ err = <<>> /\ weather.decodes /\ Dated)
    => /\ Len(lines) = Len(weather.History.MaxTemps)
       /\ \A k \in 1..Len(lines) :
            /\ lines[k].date = weather.History.World[k]
            /\ lines[k].temp = F64Int[Converted(k)]
            /\ Len(lines[k].pattern) = 5
            /\ \A a, b \in 1..5 :
                 (a < b /\ lines[k].pattern[b] = "*") => lines[k].pattern[a] = "*"
            /\ \A a \in 1..5 : lines[k].pattern[a] \in {"*", " "}
====
